---------------------------- MODULE Spec2Model ----------------------------
(***************************************************************************)
(* FatFs block-storage drivers of USB-MTP-demo-STM32L562E-DK:              *)
(*   - spi_diskio.c : SPI-flash driver with a one-line write-back cache    *)
(*   - sd_diskio.c  : SD driver waiting on a binary completion semaphore   *)
(* Byte buffers are modelled per 256-byte program page (WRITEPAGE); a      *)
(* page holds one byte value, a sector is two pages, a block sixteen.      *)
(***************************************************************************)
EXTENDS Integers, Sequences, FiniteSets, TLC

(***************************************************************************)
(* Program constants                                                       *)
(***************************************************************************)
WRITEPAGE == 256
SECTOR_SIZE == 512
BLOCK_SIZE == 4096
CACHE_TIMEOUT == 0
\* the value of CACHE_TIMEOUT in the debounced-flush configuration
CACHE_TIMEOUT_DEBOUNCED == 100
\* uint32_t values of 2^31 and above are held as their two's-complement negatives
UINT32_MAX == 0 - 1
\* x / k in uint32_t arithmetic, k a power of two
U32Div(x, k) == IF x < 0 THEN 4 * (2^30 \div k) + (x \div k) ELSE x \div k

RES_OK == 0
RES_ERROR == 1
RES_NOTRDY == 3
RES_PARERR == 4
\* disk status bit: the drive is not initialised
STA_NOINIT == 1

\* ioctl control codes (FatFs diskio.h numbering, SECTOR_ERASE/DISK_ERASE from spi_diskio.h)
CTRL_SYNC == 0
GET_SECTOR_COUNT == 1
GET_SECTOR_SIZE == 2
GET_BLOCK_SIZE == 3
SECTOR_ERASE == 105
DISK_ERASE == 106

SectorsPerBlock == BLOCK_SIZE \div SECTOR_SIZE
PagesPerBlock == BLOCK_SIZE \div WRITEPAGE
PagesPerSector == SECTOR_SIZE \div WRITEPAGE
\* initial value of vLastBlock, and the block index SPIFLASH_cache(UINT32_MAX) computes
Unassigned == U32Div(UINT32_MAX, SectorsPerBlock)

(***************************************************************************)
(* Bounds of the model                                                     *)
(***************************************************************************)
NumTasks == 2
NumBlocks == 2
MaxSkip == 1
\* calls are started while the mutex hold count is at most this (each call that
\* returns without releasing the mutex raises the count for good)
MaxHeld == 1
\* transfer faults in one behaviour
MaxFaults == 1

\* logical drives of the registry, and driver initialize calls per drive
NumDrives == 2
MaxDrvInits == 3
Drives == 0..(NumDrives - 1)

Tasks == 1..NumTasks
NoTask == 0
Blocks == 0..(NumBlocks - 1)
Pages == 0..(PagesPerBlock - 1)
ERASED == 2^8 - 1
UNFILLED == 0 - 1
\* <<first sector, count>> of the read and write requests: one sector, the next
\* one, and two sectors across the boundary of blocks 0 and 1
Shapes == {<<0, 1>>, <<1, 1>>, <<SectorsPerBlock - 1, 2>>}
\* pages a transfer fault can hit
FaultPages == {1}

FaultKinds == {"prog_hal", "prog_tmo", "rx_hal", "rx_tmo", "rx_flip", "rd_hal", "rd_tmo"}
NoFault == [kind |-> "none", page |-> 0, nth |-> 0]
Faults == {NoFault} \cup [kind : FaultKinds, page : FaultPages, nth : 0..MaxSkip]

VARIABLES
    vBlockCache,    \* the cache line: page -> byte value
    vLastBlock,     \* block index the cache line holds
    vDirty,         \* bit mask of modified sectors of the cache line
    lineRead,       \* the cache line was filled by a completed read of block vLastBlock
    vCacheFlush,    \* the idle-flush timer: "absent" (CACHE_TIMEOUT == 0), "stopped", "running"
    vFlashSize,     \* device size in bytes, 0 = not identified
    flash,          \* the device: block -> page -> byte value
    mutexHolder,    \* task owning the bus mutex, NoTask when free
    mutexCount,     \* recursive hold count of the bus mutex
    pc,             \* per task: "idle", or the function whose guarded body it is in
    held0,          \* per task: its mutex hold count when the call in progress began
    last,           \* the call that returned in the latest step
    written,        \* what write512 calls wrote to the block accessed last
    nfaults,        \* transfer faults that have happened so far
    syncClean,      \* a CTRL_SYNC returned and no write call has run since
    e2e             \* progress of the end-to-end example run

flashVars == <<vBlockCache, vLastBlock, vDirty, lineRead, vCacheFlush, vFlashSize, flash, mutexHolder,
               mutexCount, pc, held0, last, written, nfaults, syncClean, e2e>>

VARIABLES
    hSdTransfer,    \* the binary semaphore of the SD driver: 1 when it holds a token
    sdPc,           \* per task: where it is in its SD_read / SD_write / SD_status
    sdCall,         \* per task: its SD call in progress: op, aligned, count, res, ...
    hsd,            \* the transfer the SD peripheral works on: id (0: none) and direction
    tokenOf,        \* the transfer whose callback gave the token in hSdTransfer
    xfers,          \* transfers started so far
    sdLast,         \* the SD call that returned last, until the next call begins
    Stat,           \* disk status of the SD driver: 0, or STA_NOINIT
    scratch         \* the task whose block the staging buffer holds

sdVars == <<hSdTransfer, sdPc, sdCall, hsd, tokenOf, xfers, sdLast, Stat, scratch>>

VARIABLES
    is_initialized, \* disk.is_initialized: per drive, 1 once its driver's initialize succeeded
    drvInits,       \* per drive: calls of the driver's initialize so far
    diskLast        \* the disk_initialize call that returned last

diskVars == <<is_initialized, drvInits, diskLast>>
vars == <<flashVars, sdVars, diskVars>>

\* F applied to the value v (v is computed once)
With(v, F(_)) == F(v)

(***************************************************************************)
(* Bytes and the flash array                                               *)
(***************************************************************************)
RECURSIVE BitAnd(_, _, _)
BitAnd(a, b, n) ==
    IF n = 0 THEN 0
    ELSE (a % 2) * (b % 2) + 2 * BitAnd(a \div 2, b \div 2, n - 1)

\* page program can only clear bits of the stored byte
Program(old, new) ==
    IF old = ERASED THEN new
    ELSE IF new = ERASED \/ new = old THEN old
    ELSE BitAnd(old, new, 8)

ErasedBlock == [p \in Pages |-> ERASED]
FirstPage(subsect) == subsect * PagesPerSector
SectorPages(subsect) == FirstPage(subsect)..(FirstPage(subsect) + PagesPerSector - 1)

\* 1 << n, and bit test / bit set on the dirty mask
Shl1(n) == 2^n
BitSet(mask, n) == (mask \div Shl1(n)) % 2 = 1
BitOr(mask, n) == IF BitSet(mask, n) THEN mask ELSE mask + Shl1(n)

(***************************************************************************)
(* The driver state threaded through one call: d.log collects the device   *)
(* operations of the call, d.fault the transfer fault still to happen.     *)
(***************************************************************************)
Ev(k, b, t, d) ==
    [k |-> k, b |-> b, lb |-> d.last, dy |-> d.dirty, rd |-> d.rd,
     held |-> (d.mh = t /\ d.mc > 0)]
Log(d, k, b, t) == [d EXCEPT !.log = Append(@, Ev(k, b, t, d))]

\* the fault hits the operation of class `cls` when it is the nth such operation
Hits(d, cls) == d.fault.kind \in cls /\ d.fault.nth = 0
Pass(d, cls) ==
    IF d.fault.kind \in cls
    THEN IF d.fault.nth = 0 THEN [d EXCEPT !.fault = NoFault]
         ELSE [d EXCEPT !.fault.nth = @ - 1]
    ELSE d

ProgKinds == {"prog_hal", "prog_tmo", "rx_hal", "rx_tmo", "rx_flip"}
ReadKinds == {"rd_hal", "rd_tmo"}

(***************************************************************************)
(* HAL_SPI_Mutex(hspi, take): the bus mutex.  It is taken again by the     *)
(* functions a holder calls, so it is a recursive mutex; a take by another *)
(* task than the holder times out and returns false.                       *)
(***************************************************************************)
MutexFree(d, t) == d.mh = NoTask \/ d.mh = t
MutexTake(d, t) == [d EXCEPT !.mh = t, !.mc = @ + 1]
MutexGive(d, t) ==
    IF d.mh = t /\ d.mc > 0
    THEN [d EXCEPT !.mc = @ - 1, !.mh = IF d.mc = 1 THEN NoTask ELSE t]
    ELSE d


(***************************************************************************)
(* SPIFLASH_ioctl, case SECTOR_ERASE, as SPIFLASH_cache calls it: the      *)
(* mutex-guarded 4 KiB erase of one block.                                 *)
(***************************************************************************)
EraseBlock(d, t, block) ==
    Log([d EXCEPT !.dev[block] = ErasedBlock], "erase", block, t)

ioctl_SECTOR_ERASE(d, t, block) ==
    IF MutexFree(d, t)
    THEN MutexGive(EraseBlock(MutexTake(d, t), t, block), t)
    ELSE d

(***************************************************************************)
(* SPIFLASH_write4k: page program loop, then the verify read-back          *)
(***************************************************************************)
RECURSIVE ProgramLoop(_, _, _, _, _)
ProgramLoop(blk, buff, p, f, err) ==
    IF p = PagesPerBlock THEN [blk |-> blk, err |-> err]
    ELSE IF f.kind = "prog_hal" /\ f.page = p
         THEN \* HAL_SPI_Transmit_IT/DMA failed: no data reaches the device
              ProgramLoop(blk, buff, p + 1, f, RES_NOTRDY)
    ELSE IF f.kind = "prog_tmo" /\ f.page = p
         THEN \* data was sent, HAL_SPI_Wait timed out
              ProgramLoop([blk EXCEPT ![p] = Program(@, buff[p])], buff, p + 1, f, RES_NOTRDY)
    ELSE ProgramLoop([blk EXCEPT ![p] = Program(@, buff[p])], buff, p + 1, f, err)

Flip(v) == IF v % 2 = 1 THEN v - 1 ELSE v + 1

\* i: page of dataForVerify compared next; sp: page the device streams next
\* (a receive that failed to start clocks no bytes out of the device)
RECURSIVE VerifyLoop(_, _, _, _, _, _)
VerifyLoop(blk, buff, i, sp, f, err) ==
    IF i = PagesPerBlock THEN [err |-> err, mm |-> FALSE]
    ELSE IF f.kind = "rx_hal" /\ f.page = i
         THEN VerifyLoop(blk, buff, i + 1, sp, f, RES_NOTRDY)
    ELSE IF f.kind = "rx_tmo" /\ f.page = i
         THEN [err |-> RES_NOTRDY, mm |-> FALSE]
    ELSE LET rb == IF f.kind = "rx_flip" /\ f.page = i THEN Flip(blk[sp]) ELSE blk[sp]
         IN IF rb # buff[i]
            THEN [err |-> RES_ERROR, mm |-> TRUE]
            ELSE VerifyLoop(blk, buff, i + 1, sp + 1, f, err)

\* write4k without the comparison of the read-back
write4k_body_noverify(d, t, buff, block) ==
    With(IF Hits(d, ProgKinds) THEN d.fault ELSE NoFault, LAMBDA f :
    With(ProgramLoop(d.dev[block], buff, 0, f, RES_OK), LAMBDA pr :
    With(Log([d EXCEPT !.dev[block] = pr.blk], "program", block, t), LAMBDA d1 :
        [d   |-> Pass(IF \E p \in Pages : pr.blk[p] # buff[p]
                      THEN Log(d1, "mismatch", block, t) ELSE d1, ProgKinds),
         err |-> pr.err])))

write4k_body(d, t, buff, block) ==
    With(IF Hits(d, ProgKinds) THEN d.fault ELSE NoFault, LAMBDA f :
    With(ProgramLoop(d.dev[block], buff, 0, f, RES_OK), LAMBDA pr :
    With(VerifyLoop(pr.blk, buff, 0, 0, f, pr.err), LAMBDA vr :
    With(Log([d EXCEPT !.dev[block] = pr.blk], "program", block, t), LAMBDA d1 :
        [d   |-> Pass(IF vr.mm THEN Log(d1, "mismatch", block, t) ELSE d1, ProgKinds),
         err |-> vr.err]))))

SPIFLASH_write4k(d, t, buff, block) ==
    IF MutexFree(d, t)
    THEN With(write4k_body(MutexTake(d, t), t, buff, block), LAMBDA r :
              [d |-> MutexGive(r.d, t), err |-> r.err])
    ELSE [d |-> d, err |-> RES_OK]

(***************************************************************************)
(* SPIFLASH_read4k: one block into buf                                     *)
(***************************************************************************)
read4k_body(d, t, buf, block) ==
    With(IF Hits(d, ReadKinds) THEN d.fault ELSE NoFault, LAMBDA f :
        [d   |-> Pass(Log(d, "read4k", block, t), ReadKinds),
         err |-> IF f.kind = "none" THEN RES_OK ELSE RES_NOTRDY,
         full |-> f.kind = "none",
         buf |-> IF f.kind = "rd_hal" THEN buf
                 ELSE IF f.kind = "rd_tmo"
                 THEN [p \in Pages |-> IF p < f.page THEN d.dev[block][p] ELSE buf[p]]
                 ELSE d.dev[block]])

SPIFLASH_read4k(d, t, buf, block) ==
    IF MutexFree(d, t)
    THEN With(read4k_body(MutexTake(d, t), t, buf, block), LAMBDA r :
              [d |-> MutexGive(r.d, t), err |-> r.err, full |-> r.full, buf |-> r.buf])
    ELSE [d |-> d, err |-> RES_OK, full |-> FALSE, buf |-> buf]

(***************************************************************************)
(* SPIFLASH_cache: make the block of `sector` resident, writing the dirty  *)
(* line back first.  SPIFLASH_cache(UINT32_MAX) only writes back.          *)
(***************************************************************************)
\* the write-back that leaves vDirty as it is
cache_flush_keepdirty(d, t) ==
    IF d.last # Unassigned /\ d.dirty # 0
    THEN With(ioctl_SECTOR_ERASE(d, t, d.last), LAMBDA e :
         With(SPIFLASH_write4k(e, t, e.cache, e.last), LAMBDA w :
              [d |-> w.d, err |-> w.err]))
    ELSE [d |-> d, err |-> RES_OK]

\* the write-back of a line whether it is dirty or not
cache_flush_always(d, t) ==
    IF d.last # Unassigned
    THEN With(ioctl_SECTOR_ERASE(d, t, d.last), LAMBDA e :
         With(SPIFLASH_write4k(e, t, e.cache, e.last), LAMBDA w :
              [d |-> [w.d EXCEPT !.dirty = 0], err |-> w.err]))
    ELSE [d |-> d, err |-> RES_OK]

cache_flush(d, t) ==
    IF d.last # Unassigned /\ d.dirty # 0
    THEN With(ioctl_SECTOR_ERASE(d, t, d.last), LAMBDA e :
         With(SPIFLASH_write4k(e, t, e.cache, e.last), LAMBDA w :
              [d |-> [w.d EXCEPT !.dirty = 0], err |-> w.err]))
    ELSE [d |-> d, err |-> RES_OK]

cache_load(d, t, blk) ==
    IF blk # Unassigned
    THEN With(SPIFLASH_read4k(d, t, d.cache, blk), LAMBDA r :
              [r.d EXCEPT !.cache = r.buf, !.last = blk, !.rd = r.full])
    ELSE d

\* #if (CACHE_TIMEOUT != 0) xTimerStop(vCacheFlush, 0) / xTimerStart(vCacheFlush, 5)
TimerStop(d) == IF d.tm = "running" THEN [d EXCEPT !.tm = "stopped"] ELSE d
TimerStart(d) == IF d.tm = "stopped" THEN [d EXCEPT !.tm = "running"] ELSE d

\* SPIFLASH_cache that takes the flush-only request for "nothing to do"
SPIFLASH_cache_noflushonly(d0, t, sector) ==
    With(U32Div(sector, SectorsPerBlock), LAMBDA blk :
    With(Log(TimerStop(d0), "cache", blk, t), LAMBDA d :
        IF blk # d.last /\ blk # Unassigned
        THEN With(cache_flush(d, t), LAMBDA fl :
                  [d |-> Log(cache_load(fl.d, t, blk), "cached", blk, t), err |-> fl.err])
        ELSE [d |-> Log(d, "cached", blk, t), err |-> RES_OK]))

SPIFLASH_cache(d0, t, sector) ==
    With(U32Div(sector, SectorsPerBlock), LAMBDA blk :
    With(Log(TimerStop(d0), "cache", blk, t), LAMBDA d :
        IF blk # d.last
        THEN With(cache_flush(d, t), LAMBDA fl :
                  [d |-> Log(cache_load(fl.d, t, blk), "cached", blk, t), err |-> fl.err])
        ELSE [d |-> Log(d, "cached", blk, t), err |-> RES_OK]))


(***************************************************************************)
(* SPIFLASH_read512, inside the mutex: the do-while over the sectors       *)
(***************************************************************************)
SubSect(sector) == sector % SectorsPerBlock
SectorIdx == 0..(PagesPerSector - 1)
UnfilledSector == [j \in SectorIdx |-> UNFILLED]

read512_cached(d, t, sector) ==
    With(SPIFLASH_cache(d, t, sector), LAMBDA c :
        [d |-> c.d, err |-> c.err,
         data |-> [j \in SectorIdx |-> c.d.cache[FirstPage(SubSect(sector)) + j]]])

\* the read of a sector of another block that makes that block resident
read512_direct_cached(d, t, sector, old, err) == read512_cached(d, t, sector)

read512_direct(d, t, sector, old, err) ==
    With(IF Hits(d, ReadKinds) THEN d.fault ELSE NoFault, LAMBDA f :
        [d |-> Pass(Log(d, "read512", sector, t), ReadKinds),
         err |-> IF f.kind = "none" THEN err ELSE RES_NOTRDY,
         data |-> [j \in SectorIdx |->
                     IF f.kind = "none" \/ (f.kind = "rd_tmo" /\ j < f.page)
                     THEN d.dev[sector \div SectorsPerBlock][FirstPage(SubSect(sector)) + j]
                     ELSE old[j]]])

RECURSIVE read512_loop(_, _, _, _, _, _)
read512_loop(d, t, sector, n, buf, err) ==
    IF n = Len(buf) THEN [d |-> d, err |-> err, buf |-> buf]
    ELSE With(IF (sector \div SectorsPerBlock) = d.last
              THEN read512_cached(d, t, sector)
              ELSE read512_direct(d, t, sector, buf[n + 1], err), LAMBDA r :
              read512_loop(r.d, t, sector + 1, n + 1, [buf EXCEPT ![n + 1] = r.data], r.err))

read512_body(d, t, sector, count) ==
    With(read512_loop(d, t, sector, 0, [i \in 1..count |-> UnfilledSector], RES_OK), LAMBDA r :
        [d |-> MutexGive(r.d, t), err |-> r.err, buf |-> r.buf])

(***************************************************************************)
(* SPIFLASH_write512, inside the mutex                                     *)
(***************************************************************************)
\* memcmp(&vBlockCache[SECTOR_SIZE * subsect], buff, SECTOR_SIZE) != 0
SectorDiffers(cache, subsect, v) == \E p \in SectorPages(subsect) : cache[p] # v
\* a copy that leaves the cache line as it is
SectorCopy_none(cache, subsect, v) == cache

\* memcpy(&vBlockCache[SECTOR_SIZE * subsect], buff, SECTOR_SIZE)
SectorCopy(cache, subsect, v) ==
    [p \in Pages |-> IF p \in SectorPages(subsect) THEN v ELSE cache[p]]

\* the sector marked dirty and copied without the comparison
write512_sector_always(d, subsect, v) ==
    [d EXCEPT !.dirty = BitOr(@, subsect), !.cache = SectorCopy(@, subsect, v)]

write512_sector(d, subsect, v) ==
    IF SectorDiffers(d.cache, subsect, v)
    THEN [d EXCEPT !.dirty = BitOr(@, subsect), !.cache = SectorCopy(@, subsect, v)]
    ELSE d

\* the end of write512 that leaves the write-back to a later call
write512_finish_deferred(d, t, err) == [d |-> MutexGive(d, t), err |-> err]

\* after the loop: the immediate flush (CACHE_TIMEOUT == 0), or the start of the
\* idle-flush timer, and the mutex release
write512_finish(d, t, err) ==
    With(IF d.dirty # 0
         THEN IF d.tm = "absent"
              THEN SPIFLASH_cache(d, t, UINT32_MAX)
              ELSE [d |-> TimerStart(d), err |-> err]
         ELSE [d |-> d, err |-> err], LAMBDA fl :
        [d |-> MutexGive(fl.d, t), err |-> fl.err])

\* the loop that goes on with the next sector whatever SPIFLASH_cache returned
RECURSIVE write512_loop_continue(_, _, _, _, _, _, _)
write512_loop_continue(d, t, buff, sector, n, nd, err) ==
    IF n = Len(buff)
    THEN With(write512_finish(d, t, err), LAMBDA fin :
              [d |-> fin.d, err |-> fin.err, nd |-> nd, ncmp |-> n])
    ELSE With(SPIFLASH_cache(d, t, sector), LAMBDA c :
         With(write512_sector(c.d, SubSect(sector), buff[n + 1]), LAMBDA w :
              write512_loop_continue(w, t, buff, sector + 1, n + 1,
                                     IF w.cache # c.d.cache THEN nd + 1 ELSE nd, c.err)))

\* n sectors done, nd of them copied into the cache line
RECURSIVE write512_loop(_, _, _, _, _, _, _)
write512_loop(d, t, buff, sector, n, nd, err) ==
    IF n = Len(buff)
    THEN With(write512_finish(d, t, err), LAMBDA fin :
              [d |-> fin.d, err |-> fin.err, nd |-> nd, ncmp |-> n])
    ELSE With(SPIFLASH_cache(d, t, sector), LAMBDA c :
              IF c.err # RES_OK
              THEN \* return err: the mutex is not released
                   [d |-> c.d, err |-> c.err, nd |-> nd, ncmp |-> n]
              ELSE With(write512_sector(c.d, SubSect(sector), buff[n + 1]), LAMBDA w :
                        write512_loop(w, t, buff, sector + 1, n + 1,
                                      IF w.cache # c.d.cache THEN nd + 1 ELSE nd, c.err)))

write512_body(d, t, buff, sector) == write512_loop(d, t, buff, sector, 0, 0, RES_PARERR)

(***************************************************************************)
(* SPIFLASH_ioctl, inside the mutex                                        *)
(***************************************************************************)
RECURSIVE EraseAll(_, _, _)
EraseAll(d, t, b) ==
    IF b = NumBlocks THEN d
    ELSE EraseAll([d EXCEPT !.dev[b] = ErasedBlock], t, b + 1)

ioctl_body(d, t, cmd, arg, size) ==
    With(IF cmd = CTRL_SYNC
         THEN With(SPIFLASH_cache(d, t, UINT32_MAX), LAMBDA c :
                   [d |-> c.d, res |-> c.err, out |-> 0])
         ELSE IF cmd = SECTOR_ERASE
         THEN [d |-> EraseBlock(d, t, arg), res |-> RES_ERROR, out |-> 0]
         ELSE IF cmd = DISK_ERASE
         THEN [d |-> Log(EraseAll(d, t, 0), "chiperase", 0, t), res |-> RES_ERROR, out |-> 0]
         ELSE IF cmd = GET_SECTOR_COUNT
         THEN [d |-> d, res |-> RES_OK, out |-> size \div SECTOR_SIZE]
         ELSE IF cmd = GET_SECTOR_SIZE
         THEN [d |-> d, res |-> RES_OK, out |-> SECTOR_SIZE]
         ELSE IF cmd = GET_BLOCK_SIZE
         THEN [d |-> d, res |-> RES_ERROR, out |-> BLOCK_SIZE]
         ELSE [d |-> d, res |-> RES_PARERR, out |-> 0], LAMBDA r :
        [d |-> MutexGive(r.d, t), res |-> r.res, out |-> r.out])

(***************************************************************************)
(* SPIFLASH_initialize: capacity in kB from the identification bytes       *)
(***************************************************************************)
FlashSizeKB(manufacturer, memoryType, capacity) ==
    IF manufacturer = 31 /\ capacity = 1
    THEN 4 * (32 * (memoryType % 128))
    ELSE IF memoryType \in {35, 64, 96, 112}
    THEN 4 * 2^(capacity - 12)
    ELSE IF memoryType = 38
    THEN (IF capacity = 65 THEN 2 * 1024 ELSE 0)
    ELSE IF memoryType = 186
    THEN 2^(((capacity \div 16) * 10 + (capacity % 16)) - 4)
    ELSE 0

\* identification answers of the device: Winbond 16 Mbit (EF 40 15), unknown part
IdBytes == {<<239, 64, 21>>, <<0, 0, 0>>}


(***************************************************************************)
(* Calls.  A call is two steps: the HAL_SPI_Mutex(.., true) at its start   *)
(* (which either enters the guarded body or returns at once), and the body *)
(* up to the return.                                                       *)
(***************************************************************************)
NoCall == [op |-> "none", task |-> NoTask, sector |-> 0, count |-> 0, cmd |-> 0,
           wbuf |-> <<>>, held0 |-> 0, acquired |-> FALSE, res |-> RES_OK, log |-> <<>>,
           rbuf |-> <<>>, out |-> 0, nd |-> 0, ncmp |-> 0, afterSync |-> FALSE,
           faulted |-> FALSE, wr |-> <<>>,
           pre |-> [cache |-> <<>>, last |-> Unassigned, dirty |-> 0, dev |-> <<>>]]

HoldCount(t) == IF mutexHolder = t THEN mutexCount ELSE 0

D(f) == [cache |-> vBlockCache, last |-> vLastBlock, dirty |-> vDirty, rd |-> lineRead,
         tm |-> vCacheFlush, dev |-> flash,
         mh |-> mutexHolder, mc |-> mutexCount, log |-> <<>>, fault |-> f]

\* the cache line and the device as a call finds them
Pre == [cache |-> vBlockCache, last |-> vLastBlock, dirty |-> vDirty, dev |-> flash]

MkLast(t, op, sector, count, res, log) ==
    [NoCall EXCEPT !.op = op, !.task = t, !.sector = sector, !.count = count,
                   !.held0 = held0[t], !.acquired = TRUE, !.res = res, !.log = log,
                   !.afterSync = syncClean, !.wr = written, !.pre = Pre]

IsWrite(op) == op \in {"write512", "write4k"}

\* the end-to-end run: write 0xAA to sector 0, 0xBB to sector 1, read both, flush
E2ENext(stage, L) ==
    IF ~L.acquired \/ L.faulted THEN "off"
    ELSE IF stage = "start" /\ L.op = "write512" /\ L.sector = 0 /\ L.wbuf = <<170>> THEN "w0"
    ELSE IF stage = "w0" /\ L.op = "write512" /\ L.sector = 1 /\ L.wbuf = <<187>> THEN "w1"
    ELSE IF stage = "w1" /\ L.op = "read512" /\ L.sector = 0 /\ L.count = 1 THEN "r0"
    ELSE IF stage = "r0" /\ L.op = "read512" /\ L.sector = 1 /\ L.count = 1 THEN "r1"
    ELSE IF stage = "r1" /\ L.op = "ioctl" /\ L.cmd = CTRL_SYNC THEN "sync"
    ELSE "off"

\* what the write512 calls since the last change of block wrote, per sector of
\* that block (0: nothing)
NoneWritten == [blk |-> Unassigned, data |-> [i \in 0..(SectorsPerBlock - 1) |-> 0]]
RECURSIVE NoteWrites(_, _, _, _)
NoteWrites(w, sector, buff, n) ==
    IF n = 0 THEN w
    ELSE With(NoteWrites(w, sector, buff, n - 1), LAMBDA w0 :
              [(IF w0.blk = (sector + n - 1) \div SectorsPerBlock THEN w0
                ELSE [NoneWritten EXCEPT !.blk = (sector + n - 1) \div SectorsPerBlock])
               EXCEPT !.data[SubSect(sector + n - 1)] = buff[n]])
RECURSIVE NoteReads(_, _, _)
NoteReads(w, sector, n) ==
    IF n = 0 THEN w
    ELSE With(NoteReads(w, sector, n - 1), LAMBDA w0 :
              IF w0.blk = (sector + n - 1) \div SectorsPerBlock THEN w0 ELSE NoneWritten)
WrittenNext(L) ==
    IF ~L.acquired THEN written
    ELSE IF L.op = "write512"
    THEN \* the sectors copied or found equal, then the block of the sector it failed on
         NoteReads(NoteWrites(written, L.sector, L.wbuf, L.ncmp), L.sector + L.ncmp,
                   IF L.ncmp < L.count THEN 1 ELSE 0)
    ELSE IF L.op = "read512" THEN NoteReads(written, L.sector, L.count)
    ELSE IF L.op = "ioctl" /\ L.cmd \in {CTRL_SYNC, GET_SECTOR_COUNT, GET_SECTOR_SIZE, GET_BLOCK_SIZE}
    THEN written
    ELSE NoneWritten

Observe(L) ==
    /\ last' = L
    /\ e2e' = E2ENext(e2e, L)
    /\ written' = WrittenNext(L)
    /\ syncClean' = IF L.acquired /\ IsWrite(L.op) THEN FALSE
                    ELSE IF L.acquired /\ L.op = "ioctl" /\ L.cmd = CTRL_SYNC THEN TRUE
                    ELSE syncClean

\* the body entered whatever HAL_SPI_Mutex(.., true) returned
Enter_unguarded(t, op, failRes) ==
    /\ pc[t] = "idle"
    /\ mutexCount <= MaxHeld
    /\ pc' = [pc EXCEPT ![t] = op]
    /\ held0' = [held0 EXCEPT ![t] = HoldCount(t)]
    /\ last' = NoCall
    /\ IF mutexHolder = NoTask \/ mutexHolder = t
       THEN mutexHolder' = t /\ mutexCount' = mutexCount + 1
       ELSE UNCHANGED <<mutexHolder, mutexCount>>
    /\ UNCHANGED <<vBlockCache, vLastBlock, vDirty, lineRead, vCacheFlush, vFlashSize,
                   flash, nfaults, syncClean, e2e, written>>
    /\ UNCHANGED <<sdVars, diskVars>>

\* if (HAL_SPI_Mutex(FLS_SPIDEV, true)) { body } return(failRes);
Enter(t, op, failRes) ==
    /\ pc[t] = "idle"
    /\ mutexCount <= MaxHeld
    /\ IF mutexHolder = NoTask \/ mutexHolder = t
       THEN /\ mutexHolder' = t
            /\ mutexCount' = mutexCount + 1
            /\ pc' = [pc EXCEPT ![t] = op]
            /\ held0' = [held0 EXCEPT ![t] = HoldCount(t)]
            /\ last' = NoCall
            /\ UNCHANGED <<syncClean, e2e, written>>
       ELSE /\ Observe([NoCall EXCEPT !.op = op, !.task = t, !.res = failRes, !.pre = Pre])
            /\ UNCHANGED <<mutexHolder, mutexCount, pc, held0>>
    /\ UNCHANGED <<vBlockCache, vLastBlock, vDirty, lineRead, vCacheFlush, vFlashSize,
                   flash, nfaults>>
    /\ UNCHANGED <<sdVars, diskVars>>

\* the end of a body: the driver state d it leaves, and the call's record L
Return(t, d, f, L) ==
    /\ vBlockCache' = d.cache
    /\ vLastBlock' = d.last
    /\ vDirty' = d.dirty
    /\ lineRead' = d.rd
    /\ vCacheFlush' = d.tm
    /\ flash' = d.dev
    /\ mutexHolder' = d.mh
    /\ mutexCount' = d.mc
    /\ pc' = [pc EXCEPT ![t] = "idle"]
    /\ held0' = [held0 EXCEPT ![t] = 0]
    /\ LET hit == f.kind # "none" /\ d.fault.kind = "none"
       IN /\ f.kind # "none" => hit /\ nfaults < MaxFaults
          /\ nfaults' = IF hit THEN nfaults + 1 ELSE nfaults
          /\ Observe([L EXCEPT !.faulted = hit])
    /\ UNCHANGED <<sdVars, diskVars>>

(***************************************************************************)
(* SPIFLASH_initialize                                                     *)
(***************************************************************************)
Call_initialize(t) ==
    Enter(t, "initialize", IF vFlashSize # 0 THEN RES_OK ELSE RES_NOTRDY)

Body_initialize(t, id) ==
    /\ pc[t] = "initialize"
    /\ \E size \in {FlashSizeKB(id[1], id[2], id[3]) * 1024}, d \in {MutexGive(D(NoFault), t)} :
          /\ vFlashSize' = size
          /\ Return(t, d, NoFault,
                    MkLast(t, "initialize", 0, 0, IF size # 0 THEN RES_OK ELSE RES_NOTRDY, d.log))

(***************************************************************************)
(* SPIFLASH_status: return(RES_OK), without the mutex                      *)
(***************************************************************************)
SPIFLASH_status(t) ==
    /\ pc[t] = "idle"
    /\ Observe([NoCall EXCEPT !.op = "status", !.task = t, !.res = RES_OK,
                              !.held0 = HoldCount(t), !.pre = Pre])
    /\ UNCHANGED <<vBlockCache, vLastBlock, vDirty, lineRead, vCacheFlush, vFlashSize,
                   flash, mutexHolder, mutexCount, pc, held0, nfaults>>
    /\ UNCHANGED <<sdVars, diskVars>>

(***************************************************************************)
(* SPIFLASH_read512 / SPIFLASH_read4k                                      *)
(***************************************************************************)
Call_read512(t) == Enter(t, "read512", RES_OK)

Body_read512(t, sector, count, f) ==
    /\ pc[t] = "read512"
    /\ \E r \in {read512_body(D(f), t, sector, count)} :
          Return(t, r.d, f,
                 [MkLast(t, "read512", sector, count, r.err, r.d.log) EXCEPT !.rbuf = r.buf])
    /\ UNCHANGED vFlashSize

Call_read4k(t) == Enter(t, "read4k", RES_OK)

Body_read4k(t, block, f) ==
    /\ pc[t] = "read4k"
    /\ \E r \in {read4k_body(D(f), t, [p \in Pages |-> UNFILLED], block)} :
          \E d \in {MutexGive(r.d, t)} :
              Return(t, d, f,
                     [MkLast(t, "read4k", block, 1, r.err, d.log) EXCEPT !.rbuf = <<r.buf>>])
    /\ UNCHANGED vFlashSize

(***************************************************************************)
(* SPIFLASH_write512 / SPIFLASH_write4k                                    *)
(***************************************************************************)
Call_write512(t) == Enter(t, "write512", RES_PARERR)

Body_write512(t, sector, buff, f) ==
    /\ pc[t] = "write512"
    /\ \E r \in {write512_body(D(f), t, buff, sector)} :
          Return(t, r.d, f,
                 [MkLast(t, "write512", sector, Len(buff), r.err, r.d.log)
                    EXCEPT !.wbuf = buff, !.nd = r.nd, !.ncmp = r.ncmp])
    /\ UNCHANGED vFlashSize

Call_write4k(t) == Enter(t, "write4k", RES_OK)

Body_write4k(t, block, v, f) ==
    /\ pc[t] = "write4k"
    /\ \E r \in {write4k_body(D(f), t, [p \in Pages |-> v], block)} :
          \E d \in {MutexGive(r.d, t)} :
              Return(t, d, f,
                     [MkLast(t, "write4k", block, 1, r.err, d.log) EXCEPT !.wbuf = <<v>>])
    /\ UNCHANGED vFlashSize

(***************************************************************************)
(* SPIFLASH_ioctl                                                          *)
(***************************************************************************)
Call_ioctl(t) == Enter(t, "ioctl", RES_ERROR)

Body_ioctl(t, cmd, arg) ==
    /\ pc[t] = "ioctl"
    /\ \E r \in {ioctl_body(D(NoFault), t, cmd, arg, vFlashSize)} :
          Return(t, r.d, NoFault,
                 [MkLast(t, "ioctl", arg, 0, r.res, r.d.log) EXCEPT !.cmd = cmd, !.out = r.out])
    /\ UNCHANGED vFlashSize

(***************************************************************************)
(* Spec: the flash driver as FatFs drives it (read, write, CTRL_SYNC),     *)
(* called by several tasks                                                 *)
(***************************************************************************)
\* the write requests: <<first sector, one pattern per sector>>
WriteReqs == {<<0, <<170>>>>, <<0, <<187>>>>, <<1, <<187>>>>,
              <<SectorsPerBlock - 1, <<170, 187>>>>}
\* FatFs serialises the accesses to a volume (ff_req_grant), so that the disk
\* functions of the volume have one caller at a time
FsTask == 1
ReadFaults == {f \in Faults : f.kind \in ReadKinds \cup {"none"}}

\* the timer exists in the builds with CACHE_TIMEOUT != 0 (SPIFLASH_initialize
\* creates it)
TimerOf(timeout) == IF timeout = 0 THEN "absent" ELSE "stopped"

FlashStatics ==
    /\ vBlockCache = [p \in Pages |-> 0]
    /\ vLastBlock = Unassigned
    /\ vDirty = 0
    /\ lineRead = FALSE
    /\ vFlashSize = 0
    /\ flash = [b \in Blocks |-> ErasedBlock]
    /\ mutexHolder = NoTask
    /\ mutexCount = 0
    /\ pc = [t \in Tasks |-> "idle"]
    /\ held0 = [t \in Tasks |-> 0]
    /\ last = NoCall
    /\ written = NoneWritten
    /\ nfaults = 0
    /\ syncClean = FALSE
    /\ e2e = "start"

FlashInit == FlashStatics /\ vCacheFlush = TimerOf(CACHE_TIMEOUT)

\* the SD driver after SD_initialize: the semaphore is created empty
\* and SD_initialize has set Stat after its bounded wait for the card
NoXfer == [id |-> 0, op |-> "none", task |-> NoTask, buf |-> "none", end |-> "none"]
NoSdCall == [op |-> "none", task |-> NoTask, aligned |-> FALSE, n |-> 0, count |-> 0,
             res |-> RES_OK, xfer |-> 0, started |-> 0, timedOut |-> FALSE, stale |-> FALSE,
             halFailed |-> FALSE, firstRes |-> RES_OK, after |-> 0, code |-> RES_OK,
             stat0 |-> 0, probeFailed |-> FALSE, polled |-> FALSE, elapsed |-> 0,
             errored |-> FALSE]
SDInit ==
    /\ hSdTransfer = 0
    /\ sdPc = [t \in Tasks |-> "idle"]
    /\ sdCall = [t \in Tasks |-> NoSdCall]
    /\ hsd = NoXfer
    /\ tokenOf = 0
    /\ xfers = 0
    /\ sdLast = NoSdCall
    /\ Stat \in {0, STA_NOINIT}
    /\ scratch = NoTask

\* diskio.c: the registry `disk` after the drivers are linked, no drive initialized
NoDiskCall == [op |-> "none", pdrv |-> 0, flag0 |-> 0, called |-> FALSE, drv |-> RES_OK,
               stat |-> RES_OK]
DiskInit ==
    /\ is_initialized = [p \in Drives |-> 0]
    /\ drvInits = [p \in Drives |-> 0]
    /\ diskLast = NoDiskCall

Init == FlashInit /\ SDInit /\ DiskInit

Next ==
    \/ Call_read512(FsTask)
    \/ \E sh \in Shapes, f \in ReadFaults : Body_read512(FsTask, sh[1], sh[2], f)
    \/ Call_write512(FsTask)
    \/ \E w \in WriteReqs, f \in Faults : Body_write512(FsTask, w[1], w[2], f)
    \/ Call_ioctl(FsTask)
    \/ Body_ioctl(FsTask, CTRL_SYNC, 0)

Spec == Init /\ [][Next]_vars

(***************************************************************************)
(* SpecDebounced: the driver built with CACHE_TIMEOUT != 0.  write512      *)
(* starts the idle-flush timer instead of flushing, and the timer service  *)
(* task runs SPIFLASH_cache_flush when the timer expires.                  *)
(***************************************************************************)
TimerTask == NumTasks + 1

\* static void SPIFLASH_cache_flush(TimerHandle_t pxTimer) { SPIFLASH_cache(UINT32_MAX); }
SPIFLASH_cache_flush ==
    /\ vCacheFlush = "running"
    /\ \E r \in {SPIFLASH_cache(D(NoFault), TimerTask, UINT32_MAX)} :
          /\ vBlockCache' = r.d.cache
          /\ vLastBlock' = r.d.last
          /\ vDirty' = r.d.dirty
          /\ lineRead' = r.d.rd
          /\ vCacheFlush' = r.d.tm
          /\ flash' = r.d.dev
          /\ mutexHolder' = r.d.mh
          /\ mutexCount' = r.d.mc
          /\ Observe([NoCall EXCEPT !.op = "cache_flush", !.task = TimerTask, !.res = r.err,
                                    !.log = r.d.log, !.afterSync = syncClean, !.wr = written,
                                    !.pre = Pre])
    /\ UNCHANGED <<vFlashSize, pc, held0, nfaults>>
    /\ UNCHANGED <<sdVars, diskVars>>

DebouncedInit == FlashStatics /\ vCacheFlush = TimerOf(CACHE_TIMEOUT_DEBOUNCED) /\ SDInit /\ DiskInit

NextDebounced ==
    \/ Call_read512(FsTask)
    \/ \E sh \in Shapes : Body_read512(FsTask, sh[1], sh[2], NoFault)
    \/ Call_write512(FsTask)
    \/ \E w \in WriteReqs : Body_write512(FsTask, w[1], w[2], NoFault)
    \/ Call_ioctl(FsTask)
    \/ Body_ioctl(FsTask, CTRL_SYNC, 0)
    \/ SPIFLASH_cache_flush

SpecDebounced == DebouncedInit /\ [][NextDebounced]_vars

(***************************************************************************)
(* SpecBus: every function of the driver, called by tasks that do not      *)
(* coordinate (the USB-MTP task and the filesystem task reach the driver   *)
(* through different paths); the bus mutex is all that orders them.        *)
(***************************************************************************)
IoctlCmds == {CTRL_SYNC, GET_SECTOR_COUNT, GET_SECTOR_SIZE, GET_BLOCK_SIZE,
              SECTOR_ERASE, DISK_ERASE}
BusWrites == {<<0, <<170>>>>, <<SectorsPerBlock - 1, <<170, 187>>>>}
BusFaults == {NoFault, [kind |-> "rx_flip", page |-> 1, nth |-> 0]}

NextBus ==
    \E t \in Tasks :
        \/ Call_initialize(t)
        \/ \E id \in IdBytes : Body_initialize(t, id)
        \/ SPIFLASH_status(t)
        \/ Call_read512(t)
        \/ Body_read512(t, 0, 1, NoFault)
        \/ Call_read4k(t)
        \/ Body_read4k(t, 0, NoFault)
        \/ Call_write512(t)
        \/ \E w \in BusWrites, f \in BusFaults : Body_write512(t, w[1], w[2], f)
        \/ Call_write4k(t)
        \/ Body_write4k(t, 0, 170, NoFault)
        \/ Call_ioctl(t)
        \/ \E cmd \in IoctlCmds : Body_ioctl(t, cmd, 0)

SpecBus == Init /\ [][NextBus]_vars

(***************************************************************************)
(* diskio.c: disk_initialize(pdrv).  `drv` is what the bound driver's      *)
(* initialize returns when it is called: RES_OK, or the not-ready status   *)
(* of the driver (RES_NOTRDY of SPIFLASH_initialize, STA_NOINIT of         *)
(* SD_initialize).                                                         *)
(***************************************************************************)
DrvResults == {RES_OK, STA_NOINIT, RES_NOTRDY}

\* disk_initialize that calls the driver whatever the flag is, and stores the outcome
disk_initialize_body_again(flag, drv) ==
    [called |-> TRUE,
     flag   |-> IF drv = RES_OK THEN 1 ELSE 0,
     stat   |-> IF drv = RES_OK THEN RES_OK ELSE RES_ERROR]

disk_initialize_body(flag, drv) ==
    IF flag = 0
    THEN [called |-> TRUE,
          flag   |-> IF drv = RES_OK THEN 1 ELSE flag,
          stat   |-> IF drv = RES_OK THEN RES_OK ELSE RES_ERROR]
    ELSE [called |-> FALSE, flag |-> flag, stat |-> RES_OK]

disk_initialize(pdrv, drv) ==
    /\ \E r \in {disk_initialize_body(is_initialized[pdrv], drv)} :
          /\ r.called => drvInits[pdrv] < MaxDrvInits
          /\ is_initialized' = [is_initialized EXCEPT ![pdrv] = r.flag]
          /\ drvInits' = [drvInits EXCEPT ![pdrv] = IF r.called THEN @ + 1 ELSE @]
          /\ diskLast' = [op |-> "initialize", pdrv |-> pdrv, flag0 |-> is_initialized[pdrv],
                          called |-> r.called, drv |-> drv, stat |-> r.stat]
    /\ UNCHANGED <<flashVars, sdVars>>

NextDisk == \E pdrv \in Drives, drv \in DrvResults : disk_initialize(pdrv, drv)

SpecDisk == Init /\ [][NextDisk]_vars

(***************************************************************************)
(* sd_diskio.c: SD_read and SD_write have the same structure, so that one  *)
(* set of steps, with the function as `op`, models both.  A call starts a  *)
(* DMA transfer and waits on hSdTransfer, which the completion and error   *)
(* callbacks of the HAL give from interrupt context.  The driver takes no  *)
(* lock: sdPc and sdCall are per calling task.                             *)
(***************************************************************************)
MaxSdCount == 2
MaxXfers == 3
\* SD_TIMEOUT, in ticks of the model
SdTimeoutTicks == 2
SdOps == {"read", "write"}

\* where a step of the body goes next: the unaligned path goes on with its loop
\* (memcpy, buff += BLOCK_SIZE, while (count--)), the aligned path leaves
AfterTransfer(c) == IF c.aligned THEN "exit" ELSE "copy"

\* while (count--)
LoopTest(c) == IF c.count > 0 THEN "issue" ELSE "exit"
LoopCount(c) == IF c.count > 0 THEN c.count - 1 ELSE c.count

\* res = code; firstRes keeps the first code other than RES_OK the call assigned
SetRes(c, code) ==
    [c EXCEPT !.res = code, !.firstRes = IF c.firstRes = RES_OK THEN code ELSE @]

\* SD_read(buff, sector, count) / SD_write(buff, sector, count) is called
SD_enter(t, op, aligned, count) ==
    /\ sdPc[t] = "idle"
    /\ sdPc' = [sdPc EXCEPT ![t] = "status"]
    /\ sdCall' = [sdCall EXCEPT ![t] = [NoSdCall EXCEPT !.op = op, !.task = t,
                                           !.aligned = aligned, !.n = count, !.count = count]]
    /\ sdLast' = NoSdCall
    /\ UNCHANGED <<hSdTransfer, hsd, tokenOf, xfers, Stat, scratch>>
    /\ UNCHANGED <<flashVars, diskVars>>

\* if (!SD_checkstatusTimeout(SD_TIMEOUT)) res = 10; else if (unaligned) .. else ..
\* ready: the card reached HAL_SD_CARD_TRANSFER within the timeout
SD_status_check(t, ready) ==
    /\ sdPc[t] = "status"
    /\ IF ~ready
       THEN /\ sdPc' = [sdPc EXCEPT ![t] = "exit"]
            /\ sdCall' = [sdCall EXCEPT ![t] = SetRes(@, 10)]
       ELSE IF sdCall[t].aligned
       THEN /\ sdPc' = [sdPc EXCEPT ![t] = "issue"]
            /\ UNCHANGED sdCall
       ELSE /\ sdPc' = [sdPc EXCEPT ![t] = LoopTest(sdCall[t])]
            /\ sdCall' = [sdCall EXCEPT ![t].count = LoopCount(sdCall[t])]
    /\ UNCHANGED <<hSdTransfer, hsd, tokenOf, xfers, sdLast, Stat, scratch>>
    /\ UNCHANGED <<flashVars, diskVars>>

\* the unaligned SD_write stages the block first: memcpy(scratch, buff, BLOCK_SIZE)
StageWrite(t) ==
    IF sdCall[t].op = "write" /\ ~sdCall[t].aligned THEN t ELSE scratch

\* HAL_SD_ReadBlocks_DMA / HAL_SD_WriteBlocks_DMA: it starts a transfer only when
\* the peripheral works on none; when it does not return HAL_OK, res is left as
\* it is
SD_issue(t, hal_ok) ==
    /\ sdPc[t] = "issue"
    /\ scratch' = StageWrite(t)
    /\ IF hal_ok
       THEN /\ hsd.id = 0
            /\ xfers < MaxXfers
            /\ xfers' = xfers + 1
            /\ hsd' = [id |-> xfers + 1, op |-> sdCall[t].op, task |-> t,
                       buf |-> IF sdCall[t].aligned THEN "user" ELSE "scratch",
                       end |-> "none"]
            /\ sdCall' = [sdCall EXCEPT ![t].xfer = xfers + 1, ![t].started = @ + 1,
                                        ![t].after = IF sdCall[t].res # RES_OK THEN @ + 1 ELSE @]
            /\ sdPc' = [sdPc EXCEPT ![t] = "wait"]
       ELSE /\ sdPc' = [sdPc EXCEPT ![t] = AfterTransfer(sdCall[t])]
            /\ sdCall' = [sdCall EXCEPT ![t].halFailed = TRUE]
            /\ UNCHANGED <<xfers, hsd>>
    /\ UNCHANGED <<hSdTransfer, tokenOf, sdLast, Stat>>
    /\ UNCHANGED <<flashVars, diskVars>>

\* xSemaphoreTake(hSdTransfer, SD_TIMEOUT) that returns without a token
SD_take_timeout_noerror(t) ==
    /\ sdPc[t] = "wait"
    /\ hSdTransfer = 0
    /\ sdPc' = [sdPc EXCEPT ![t] = AfterTransfer(sdCall[t])]
    /\ sdCall' = [sdCall EXCEPT ![t].timedOut = TRUE]
    /\ UNCHANGED <<hSdTransfer, hsd, tokenOf, xfers, sdLast, Stat, scratch>>
    /\ UNCHANGED <<flashVars, diskVars>>

\* xSemaphoreTake(hSdTransfer, SD_TIMEOUT) == pdTRUE: the token is taken, whichever
\* transfer it came from
SD_take(t) ==
    /\ sdPc[t] = "wait"
    /\ hSdTransfer = 1
    /\ hSdTransfer' = 0
    /\ tokenOf' = 0
    /\ sdCall' = [sdCall EXCEPT ![t].stale = @ \/ (tokenOf # sdCall[t].xfer)]
    /\ sdPc' = [sdPc EXCEPT ![t] = "ready"]
    /\ UNCHANGED <<hsd, xfers, sdLast, Stat, scratch>>
    /\ UNCHANGED <<flashVars, diskVars>>

\* xSemaphoreTake(hSdTransfer, SD_TIMEOUT) != pdTRUE: no token within SD_TIMEOUT,
\* res = 11 (unaligned) or 13 (aligned); the transfer is not cancelled
SD_take_timeout(t) ==
    /\ sdPc[t] = "wait"
    /\ hSdTransfer = 0
    /\ sdPc' = [sdPc EXCEPT ![t] = AfterTransfer(sdCall[t])]
    /\ sdCall' = [sdCall EXCEPT ![t] = [SetRes(@, IF @.aligned THEN 13 ELSE 11)
                                           EXCEPT !.timedOut = TRUE]]
    /\ UNCHANGED <<hSdTransfer, hsd, tokenOf, xfers, sdLast, Stat, scratch>>
    /\ UNCHANGED <<flashVars, diskVars>>

\* else if (!SD_checkstatusTimeout(SD_TIMEOUT)) res = 12 (unaligned) or 14 (aligned)
SD_ready_check(t, ready) ==
    /\ sdPc[t] = "ready"
    /\ sdPc' = [sdPc EXCEPT ![t] = AfterTransfer(sdCall[t])]
    /\ sdCall' = IF ready THEN sdCall
                 ELSE [sdCall EXCEPT ![t] = SetRes(@, IF @.aligned THEN 14 ELSE 12)]
    /\ UNCHANGED <<hSdTransfer, hsd, tokenOf, xfers, sdLast, Stat, scratch>>
    /\ UNCHANGED <<flashVars, diskVars>>

\* memcpy, buff += BLOCK_SIZE, and the next while (count--): the loop goes on
\* whatever res is
SD_copy(t) ==
    /\ sdPc[t] = "copy"
    /\ sdPc' = [sdPc EXCEPT ![t] = LoopTest(sdCall[t])]
    /\ sdCall' = [sdCall EXCEPT ![t].count = LoopCount(sdCall[t])]
    /\ UNCHANGED <<hSdTransfer, hsd, tokenOf, xfers, sdLast, Stat, scratch>>
    /\ UNCHANGED <<flashVars, diskVars>>

\* if (res != RES_OK) { syslog; if (res >= 10) res = RES_ERROR; } return(res);
\* code is the res that syslog prints
SD_return(t) ==
    /\ sdPc[t] = "exit"
    /\ sdPc' = [sdPc EXCEPT ![t] = "idle"]
    /\ sdLast' = [sdCall[t] EXCEPT !.res = IF sdCall[t].res >= 10 THEN RES_ERROR ELSE sdCall[t].res,
                                   !.code = sdCall[t].res]
    /\ sdCall' = [sdCall EXCEPT ![t] = NoSdCall]
    /\ UNCHANGED <<hSdTransfer, hsd, tokenOf, xfers, Stat, scratch>>
    /\ UNCHANGED <<flashVars, diskVars>>

\* the transfer the peripheral works on ends: a read into scratch has filled it
EndTransfer(how) ==
    /\ hsd' = [NoXfer EXCEPT !.end = how]
    /\ scratch' = IF hsd.op = "read" /\ hsd.buf = "scratch" THEN hsd.task ELSE scratch

\* xSemaphoreGiveFromISR(hSdTransfer, nullptr) at the end of the transfer the
\* peripheral works on; a binary semaphore that holds a token keeps that one.
\* errored notes, for the call that issued the transfer, that it ended in error
GiveFromISR(how) ==
    /\ hSdTransfer' = 1
    /\ tokenOf' = IF hSdTransfer = 0 THEN hsd.id ELSE tokenOf
    /\ EndTransfer(how)
    /\ sdCall' = [t \in Tasks |->
                    IF how = "error" /\ t = hsd.task /\ sdCall[t].xfer = hsd.id
                    THEN [sdCall[t] EXCEPT !.errored = TRUE]
                    ELSE sdCall[t]]
    /\ UNCHANGED <<sdPc, xfers, sdLast, Stat>>
    /\ UNCHANGED <<flashVars, diskVars>>

HAL_SD_RxCpltCallback == hsd.op = "read" /\ GiveFromISR("cplt")
HAL_SD_TxCpltCallback == hsd.op = "write" /\ GiveFromISR("cplt")
HAL_SD_ErrorCallback == hsd.id # 0 /\ GiveFromISR("error")

\* HAL_SD_AbortCallback: __BKPT() and nothing else; the execution goes on from the
\* breakpoint with the semaphore as it was
HAL_SD_AbortCallback ==
    /\ hsd.id # 0
    /\ EndTransfer("abort")
    /\ UNCHANGED <<hSdTransfer, tokenOf, sdPc, sdCall, xfers, sdLast, Stat>>
    /\ UNCHANGED <<flashVars, diskVars>>

(***************************************************************************)
(* SD_status: the direct probe of the card state, then, when the probe     *)
(* failed and Stat says ready, SD_checkstatusTimeout(SD_TIMEOUT).          *)
(***************************************************************************)
SD_status_enter(t) ==
    /\ sdPc[t] = "idle"
    /\ sdPc' = [sdPc EXCEPT ![t] = "probe"]
    /\ sdCall' = [sdCall EXCEPT ![t] = [NoSdCall EXCEPT !.op = "status", !.task = t,
                                           !.stat0 = Stat]]
    /\ sdLast' = NoSdCall
    /\ UNCHANGED <<hSdTransfer, hsd, tokenOf, xfers, Stat, scratch>>
    /\ UNCHANGED <<flashVars, diskVars>>

\* SD_status that gives the card up at the first failed probe
SD_status_probe_flip(t, transfer) ==
    /\ sdPc[t] = "probe"
    /\ sdPc' = [sdPc EXCEPT ![t] = "st_exit"]
    /\ Stat' = IF transfer THEN 0 ELSE STA_NOINIT
    /\ sdCall' = [sdCall EXCEPT ![t].probeFailed = ~transfer]
    /\ UNCHANGED <<hSdTransfer, hsd, tokenOf, xfers, sdLast, scratch>>
    /\ UNCHANGED <<flashVars, diskVars>>

\* if (HAL_SD_GetCardState(&hsd) == HAL_SD_CARD_TRANSFER) Stat &= ~STA_NOINIT;
\* else if (!(Stat & STA_NOINIT)) { if (!SD_checkstatusTimeout(SD_TIMEOUT)) .. }
SD_status_probe(t, transfer) ==
    /\ sdPc[t] = "probe"
    /\ IF transfer
       THEN /\ Stat' = 0
            /\ sdPc' = [sdPc EXCEPT ![t] = "st_exit"]
            /\ UNCHANGED sdCall
       ELSE /\ sdPc' = [sdPc EXCEPT ![t] = IF Stat = 0 THEN "poll" ELSE "st_exit"]
            /\ sdCall' = [sdCall EXCEPT ![t].probeFailed = TRUE]
            /\ UNCHANGED Stat
    /\ UNCHANGED <<hSdTransfer, hsd, tokenOf, xfers, sdLast, scratch>>
    /\ UNCHANGED <<flashVars, diskVars>>

\* SD_checkstatusTimeout: while (xTaskGetTickCount() - start < timeout)
\*     if (HAL_SD_GetCardState(&hsd) == HAL_SD_CARD_TRANSFER) return(true);
\* return(false);   and then Stat |= STA_NOINIT
\* tick: the tick count advanced during the iteration
SD_status_poll(t, transfer, tick) ==
    /\ sdPc[t] = "poll"
    /\ IF sdCall[t].elapsed < SdTimeoutTicks
       THEN /\ sdCall' = [sdCall EXCEPT ![t].polled = TRUE,
                                        ![t].elapsed = IF transfer THEN @ ELSE @ + tick]
            /\ sdPc' = [sdPc EXCEPT ![t] = IF transfer THEN "st_exit" ELSE "poll"]
            /\ UNCHANGED Stat
       ELSE /\ Stat' = STA_NOINIT
            /\ sdPc' = [sdPc EXCEPT ![t] = "st_exit"]
            /\ UNCHANGED sdCall
    /\ UNCHANGED <<hSdTransfer, hsd, tokenOf, xfers, sdLast, scratch>>
    /\ UNCHANGED <<flashVars, diskVars>>

\* return(Stat);
SD_status_return(t) ==
    /\ sdPc[t] = "st_exit"
    /\ sdPc' = [sdPc EXCEPT ![t] = "idle"]
    /\ sdLast' = [sdCall[t] EXCEPT !.res = Stat]
    /\ sdCall' = [sdCall EXCEPT ![t] = NoSdCall]
    /\ UNCHANGED <<hSdTransfer, hsd, tokenOf, xfers, Stat, scratch>>
    /\ UNCHANGED <<flashVars, diskVars>>

\* the steps of a calling task; the scheduler runs a ready task, and the waits
\* are bounded by SD_TIMEOUT
SDXferStep(t) ==
    \/ \E ready \in BOOLEAN : SD_status_check(t, ready)
    \/ \E hal_ok \in BOOLEAN : SD_issue(t, hal_ok)
    \/ SD_take(t)
    \/ SD_take_timeout(t)
    \/ \E ready \in BOOLEAN : SD_ready_check(t, ready)
    \/ SD_copy(t)
    \/ SD_return(t)

SDStatusStep(t) ==
    \/ \E transfer \in BOOLEAN : SD_status_probe(t, transfer)
    \/ \E transfer \in BOOLEAN, tick \in 0..1 : SD_status_poll(t, transfer, tick)
    \/ SD_status_return(t)

SDTaskStep(t) == SDXferStep(t) \/ SDStatusStep(t)

SDCallbacks ==
    \/ HAL_SD_RxCpltCallback
    \/ HAL_SD_TxCpltCallback
    \/ HAL_SD_ErrorCallback
    \/ HAL_SD_AbortCallback

\* SpecSD: the SD driver with the one caller FatFs lets through at a time
NextSD ==
    \/ \E op \in SdOps, aligned \in BOOLEAN, count \in 1..MaxSdCount :
           SD_enter(FsTask, op, aligned, count)
    \/ SD_status_enter(FsTask)
    \/ SDTaskStep(FsTask)
    \/ SDCallbacks

SpecSD == Init /\ [][NextSD]_vars /\ WF_vars(SDTaskStep(FsTask))

\* SpecSDBus: SD_read / SD_write with buffers that are not DMA-suitable, called
\* by tasks that do not coordinate
NextSDBus ==
    \/ \E t \in Tasks, op \in SdOps : SD_enter(t, op, FALSE, 1)
    \/ \E t \in Tasks : SDXferStep(t)
    \/ SDCallbacks

SpecSDBus == Init /\ [][NextSDBus]_vars

(***************************************************************************)
(* Properties of Spec.  They read the record `last` of the call that       *)
(* returned in the latest step, and the device operations in its log.      *)
(***************************************************************************)
LogIdx == 1..Len(last.log)
EventsOf(k, b) == {i \in LogIdx : last.log[i].k = k /\ last.log[i].b = b}
DeviceWrites == {i \in LogIdx : last.log[i].k \in {"erase", "program", "chiperase"}}
AllOf(v) == [j \in SectorIdx |-> v]
Returned(op) == last.op = op /\ last.acquired

\* C1 (cache coherence): a read512 that follows write512 calls to sectors of one
\* erase block, with no access to another block in between, returns for each of
\* those sectors the content written to it last.
C1_CacheCoherence ==
    Returned("read512") =>
        \A n \in 1..last.count :
            LET s == last.sector + n - 1
            IN (last.wr.blk = s \div SectorsPerBlock /\ last.wr.data[SubSect(s)] # 0)
               => last.rbuf[n] = AllOf(last.wr.data[SubSect(s)])

C1_Witness ==
    /\ Returned("read512") /\ last.sector = 0 /\ last.count = 1
    /\ last.wr.blk = 0 /\ last.wr.data[0] = 187 /\ last.wr.data[1] = 187
    /\ last.rbuf = <<AllOf(187)>>

\* a request to SPIFLASH_cache for a real block other than the resident, dirty one
Evicts(i) ==
    /\ last.log[i].k = "cache"
    /\ last.log[i].dy # 0
    /\ last.log[i].lb # Unassigned
    /\ last.log[i].b # Unassigned
    /\ last.log[i].b # last.log[i].lb

\* C2 (flush before evict): when the resident block is dirty and SPIFLASH_cache
\* is asked for another real block, the device operations of that request are one
\* erase of the resident block, then one program of it, then the read of the new
\* block, and the dirty mask is zero when the request is done.
C2_FlushBeforeEvict ==
    \A i \in LogIdx :
        Evicts(i) =>
            LET L  == last.log
                rd == IF i + 3 <= Len(L) /\ L[i + 3].k = "mismatch" THEN i + 4 ELSE i + 3
            IN /\ rd + 1 <= Len(L)
               /\ L[i + 1].k = "erase" /\ L[i + 1].b = L[i].lb
               /\ L[i + 2].k = "program" /\ L[i + 2].b = L[i].lb
               /\ L[rd].k = "read4k" /\ L[rd].b = L[i].b
               /\ L[rd + 1].k = "cached" /\ L[rd + 1].dy = 0

C2_Witness ==
    /\ Returned("write512") /\ last.res = RES_OK
    /\ \E i \in LogIdx : Evicts(i) /\ last.log[i].lb = 0 /\ last.log[i].b = 1

\* C3 (verification catches corruption): a write512 or CTRL_SYNC call in which the
\* read-back after a block program differed from the programmed content returns
\* RES_ERROR.
C3_VerifyCatches ==
    (last.op \in {"write512", "ioctl"} /\ \E i \in LogIdx : last.log[i].k = "mismatch")
        => last.res = RES_ERROR

C3_Witness ==
    /\ Returned("write512") /\ last.res = RES_ERROR
    /\ \E i \in LogIdx : last.log[i].k = "mismatch"

E2EReads ==
    /\ (e2e = "r0" /\ Returned("read512")) => last.rbuf = <<AllOf(170)>>
    /\ (e2e = "r1" /\ Returned("read512")) => last.rbuf = <<AllOf(187)>>

\* C7, as stated (end-to-end example): after the writes of 0xAA to sector 0 and
\* 0xBB to sector 1 the reads return 0xAA and 0xBB, and the CTRL_SYNC that follows
\* performs exactly one erase and one program of block 0 and leaves the dirty
\* mask zero.
C7_AsStated ==
    /\ E2EReads
    /\ (e2e = "sync" /\ Returned("ioctl")) =>
           /\ Cardinality(EventsOf("erase", 0)) = 1
           /\ Cardinality(EventsOf("program", 0)) = 1
           /\ Cardinality(DeviceWrites) = 2
           /\ vDirty = 0

\* C7, amended (end-to-end example with CACHE_TIMEOUT == 0): each of the two
\* write512 calls itself performs exactly one erase and one program of block 0
\* and leaves the dirty mask zero; the reads return 0xAA and 0xBB; the CTRL_SYNC
\* that follows performs no erase and no program, and the dirty mask stays zero.
C7_EndToEnd ==
    /\ E2EReads
    /\ (e2e \in {"w0", "w1"} /\ Returned("write512")) =>
           /\ Cardinality(EventsOf("erase", 0)) = 1
           /\ Cardinality(EventsOf("program", 0)) = 1
           /\ Cardinality(DeviceWrites) = 2
           /\ last.res = RES_OK
           /\ vDirty = 0
    /\ (e2e = "sync" /\ Returned("ioctl")) =>
           /\ DeviceWrites = {}
           /\ last.res = RES_OK
           /\ vDirty = 0

C7_Witness == e2e = "sync" /\ Returned("ioctl") /\ flash[0][0] = 170 /\ flash[0][PagesPerSector] = 187

\* C8 (no-op write suppression): a write512 whose content is, for every sector,
\* identical to what the cache line holds for it sets no dirty bit and causes no
\* erase and no program.
C8_NoOpWrite ==
    (Returned("write512") /\ last.nd = 0) =>
        /\ DeviceWrites = {}
        /\ \A i \in LogIdx : last.log[i].dy = 0
        /\ vDirty = 0

C8_Witness ==
    /\ Returned("write512") /\ last.nd = 0 /\ last.ncmp = 2 /\ last.res = RES_OK
    /\ last.wbuf = <<170, 187>>

\* C9 (idempotent flush): a CTRL_SYNC that follows a CTRL_SYNC with no write call
\* in between performs no erase and no program and leaves the dirty mask zero.
C9_IdempotentFlush ==
    (Returned("ioctl") /\ last.cmd = CTRL_SYNC /\ last.afterSync) =>
        /\ DeviceWrites = {}
        /\ \A i \in LogIdx : last.log[i].dy = 0
        /\ vDirty = 0

C9_Witness ==
    /\ Returned("ioctl") /\ last.cmd = CTRL_SYNC /\ last.afterSync
    /\ vLastBlock # Unassigned /\ last.res = RES_OK


\* C12 (CacheLine invariant): when no block is resident (vLastBlock is the
\* unassigned value) the dirty mask is 0, and whenever the dirty mask is not 0,
\* at the return of a call or at a device operation within it, vLastBlock is a
\* block of the device whose content was read into the cache line.
C12_CacheLineInvariant ==
    /\ vLastBlock = Unassigned => vDirty = 0
    /\ vDirty # 0 => (vLastBlock \in Blocks /\ lineRead)
    /\ \A i \in LogIdx :
           last.log[i].dy # 0 => (last.log[i].lb \in Blocks /\ last.log[i].rd)

\* C13 (flush-only request): a request to SPIFLASH_cache with the sentinel target
\* leaves the dirty mask zero, reads no block, and leaves no block resident
\* (vLastBlock is the unassigned value when the request is done), so that the
\* next access to the block that was resident needs a block read.
C13_FlushOnlyUnloads ==
    \A i \in LogIdx :
        (last.log[i].k = "cached" /\ last.log[i].b = Unassigned) =>
            /\ last.log[i].dy = 0
            /\ last.log[i - 1].k # "read4k"
            /\ last.log[i].lb = Unassigned

C19_CacheUnderMutex ==
    /\ \A i \in LogIdx :
           (i > 1 /\ (last.log[i].lb # last.log[i - 1].lb \/ last.log[i].dy # last.log[i - 1].dy))
               => last.log[i].held
    /\ (last.op # "none" /\ (vLastBlock # last.pre.last \/ vDirty # last.pre.dirty
                              \/ vBlockCache # last.pre.cache))
           => (last.acquired /\ \A i \in LogIdx : last.log[i].held)

DeviceSector(sector) ==
    [j \in SectorIdx |-> flash[sector \div SectorsPerBlock][FirstPage(SubSect(sector)) + j]]

\* C25 (Ok means written): when SPIFLASH_write512 has returned RES_OK, every sector it
\* was asked to write holds on the device the data that was passed in, whatever calls
\* came before, failed ones included.
C25_OkMeansWritten ==
    (Returned("write512") /\ last.res = RES_OK) =>
        \A n \in 1..Len(last.wbuf) : DeviceSector(last.sector + n - 1) = AllOf(last.wbuf[n])

\* C27 (frame of a write): after a SPIFLASH_write512 every sector of the device that
\* the call was not asked to write holds what it held when the call began, also
\* when the read that loads the cache line failed.
C27_WriteFrame ==
    Returned("write512") =>
        \A blk \in Blocks, sub \in 0..(SectorsPerBlock - 1) :
            (blk * SectorsPerBlock + sub) \notin last.sector..(last.sector + last.count - 1) =>
                \A p \in SectorPages(sub) : flash[blk][p] = last.pre.dev[blk][p]

(***************************************************************************)
(* Properties of SpecBus                                                   *)
(***************************************************************************)
\* C4 (mutex released on every exit path): when a call of the flash driver has
\* returned, with any result, the hold count of the calling task on the bus mutex
\* is what it was when the call began.
C4_MutexReleased == last.op # "none" => HoldCount(last.task) = last.held0

\* C10 (mutual exclusion on the flash transport): a task inside the body of a
\* driver function holds the bus mutex, at most one task is inside a body, and
\* every device operation of a call was done while its task held the mutex.
C10_MutualExclusion ==
    /\ \A t \in Tasks : pc[t] # "idle" => (mutexHolder = t /\ mutexCount > 0)
    /\ \A t, u \in Tasks : (pc[t] # "idle" /\ pc[u] # "idle") => t = u
    /\ \A i \in LogIdx : last.log[i].held

\* a task is inside write4k while the other one was turned away and has returned
C10_Witness ==
    /\ \E t \in Tasks : pc[t] = "write4k" /\ mutexHolder = t
    /\ last.op # "none" /\ ~last.acquired /\ last.task # mutexHolder

\* the capacity of the 16 Mbit part (EF 40 15), in bytes
Size16Mbit == FlashSizeKB(239, 64, 21) * 1024

\* C21 (capacity queries): after SPIFLASH_initialize has identified the 16 Mbit part,
\* GET_SECTOR_COUNT, GET_SECTOR_SIZE and GET_BLOCK_SIZE return RES_OK and yield
\* 4096 sectors, 512 bytes per sector and 8 sectors per erase block.
C21_Geometry ==
    (Returned("ioctl") /\ vFlashSize = Size16Mbit) =>
        /\ last.cmd = GET_SECTOR_COUNT => (last.res = RES_OK /\ last.out = (2 * 1024 * 1024) \div 512)
        /\ last.cmd = GET_SECTOR_SIZE => (last.res = RES_OK /\ last.out = 512)
        /\ last.cmd = GET_BLOCK_SIZE => (last.res = RES_OK /\ last.out = 8)

\* C23 (status after initialization): status() does not report Ready (0) unless the
\* initialization of the drive has succeeded; SPIFLASH_initialize has succeeded when
\* it has found a capacity (vFlashSize != 0).
C23_StatusAfterInit ==
    (last.op = "status" /\ last.res = RES_OK) => vFlashSize # 0

\* C26 (dirty-mask accuracy): while a block is resident, every sector of it whose
\* dirty bit is clear has the same content in the cache line as on the device.
C26_DirtyAccurate ==
    vLastBlock \in Blocks =>
        \A sub \in 0..(SectorsPerBlock - 1) :
            ~BitSet(vDirty, sub) =>
                \A p \in SectorPages(sub) : vBlockCache[p] = flash[vLastBlock][p]

\* C29 (a read that copied nothing is not a success): SPIFLASH_read512 and
\* SPIFLASH_read4k return RES_OK only when they acquired the bus mutex and every
\* requested sector was copied into the caller's buffer.
C29_ReadOkMeansCopied ==
    (last.op \in {"read512", "read4k"} /\ last.res = RES_OK) =>
        /\ last.acquired
        /\ Len(last.rbuf) > 0
        /\ \A n \in 1..Len(last.rbuf) : \A j \in DOMAIN last.rbuf[n] : last.rbuf[n][j] # UNFILLED

(***************************************************************************)
(* Properties of SpecSD                                                    *)
(***************************************************************************)
\* C5 (bounded wait, no hang): an SD_read / SD_write call whose wait for the
\* completion signal ended without the signal returns RES_ERROR, and a call that
\* waits for the signal always returns.
C5_BoundedWait ==
    /\ [](sdLast.timedOut => sdLast.res = RES_ERROR)
    /\ (sdPc[FsTask] = "wait") ~> (sdPc[FsTask] = "idle")

C5_Witness ==
    /\ sdLast.op = "read" /\ sdLast.timedOut /\ sdLast.res = RES_ERROR
    /\ sdLast.started = 1 /\ hsd.id # 0 /\ sdPc[FsTask] = "idle"

\* C6 (spurious completion tolerance): the wait of an SD_read / SD_write for one
\* block or one aligned transfer ends only on the completion signal of the
\* transfer the call started, never on the token a transfer of an earlier call
\* left in the semaphore.
C6_NoStaleRelease == (sdLast.op \in SdOps /\ sdLast.started = 1) => ~sdLast.stale


\* C11 (release on transfer failure): while a call waits in SD_read / SD_write and
\* its transfer has ended in failure, by whichever failure callback, the
\* completion signal is posted, so that the wait ends on it.
C11_FailureReleases ==
    \A t \in Tasks :
        (sdPc[t] = "wait" /\ hsd.id = 0 /\ hsd.end \in {"error", "abort"}) => hSdTransfer = 1


\* C16 (SD_read stops at the first failing unit): when a unit of an SD_read has
\* failed, the call starts no further block transfer, and the code it logs and
\* the result it returns are those of that first failure.
C16_StopsAtFirstFailure ==
    (sdLast.op = "read" /\ sdLast.firstRes # RES_OK) =>
        /\ sdLast.after = 0
        /\ sdLast.code = sdLast.firstRes
        /\ sdLast.res = RES_ERROR

\* C17 (failure to start a transfer is reported): an SD_read / SD_write in which
\* HAL_SD_ReadBlocks_DMA / HAL_SD_WriteBlocks_DMA did not return HAL_OK does not
\* return RES_OK.
C17_StartFailureReported ==
    (sdLast.op \in SdOps /\ sdLast.halFailed) => sdLast.res # RES_OK


\* C18 (SD_status is sticky-optimistic): an SD_status call that found Stat ready
\* and returns it not ready has seen the direct probe fail and then
\* SD_checkstatusTimeout go on, without the card reaching the transfer state,
\* until SD_TIMEOUT had run out; the same holds of a call in progress from the
\* step in which Stat changed.
C18_StickyStatus ==
    /\ (sdLast.op = "status" /\ sdLast.stat0 = 0 /\ sdLast.res = STA_NOINIT) =>
           /\ sdLast.probeFailed
           /\ sdLast.elapsed >= SdTimeoutTicks
    /\ \A t \in Tasks :
           (sdCall[t].op = "status" /\ sdCall[t].stat0 = 0 /\ Stat = STA_NOINIT) =>
               (sdCall[t].probeFailed /\ sdCall[t].elapsed >= SdTimeoutTicks)

C18_Witness ==
    /\ sdLast.op = "status" /\ sdLast.stat0 = 0 /\ sdLast.res = STA_NOINIT
    /\ sdLast.probeFailed /\ sdLast.polled /\ sdLast.elapsed = SdTimeoutTicks
    /\ Stat = STA_NOINIT


\* C28 (a failed transfer is not reported as success): an SD_read / SD_write one of
\* whose transfers ended through HAL_SD_ErrorCallback does not return RES_OK.
C28_ErrorNotOk ==
    (sdLast.op \in SdOps /\ sdLast.errored) => sdLast.res # RES_OK

(***************************************************************************)
(* Properties of SpecSDBus                                                 *)
(***************************************************************************)
\* a task is between the filling of scratch and the end of its use: SD_write from
\* memcpy(scratch, buff) to the end of the wait for the transfer out of scratch,
\* SD_read from the start of the transfer into scratch to memcpy(buff, scratch)
UsesScratch(t) ==
    /\ sdCall[t].op \in SdOps
    /\ ~sdCall[t].aligned
    /\ \/ sdPc[t] \in {"wait", "ready"}
       \/ sdCall[t].op = "read" /\ sdPc[t] = "copy"

\* C20 (the scratch buffer is protected): at most one task at a time is between
\* filling scratch and finishing with it, and while an SD_write waits for its
\* transfer out of scratch, scratch holds the block that call staged.
C20_ScratchExclusive ==
    /\ \A t, u \in Tasks : (UsesScratch(t) /\ UsesScratch(u)) => t = u
    /\ \A t \in Tasks :
           (sdCall[t].op = "write" /\ ~sdCall[t].aligned /\ sdPc[t] = "wait") => scratch = t

(***************************************************************************)
(* Properties of SpecDisk                                                  *)
(***************************************************************************)
\* C24 (initialization flag of the drive registry): disk_initialize(pdrv) calls the
\* driver's initialize exactly when is_initialized[pdrv] is 0, sets the flag only when
\* the driver returned RES_OK, returns RES_OK without calling the driver once the
\* flag is 1, and no step takes a flag from 1 back to 0.
C24_InitFlag ==
    /\ [](diskLast.op = "initialize" =>
            /\ diskLast.called <=> diskLast.flag0 = 0
            /\ is_initialized[diskLast.pdrv] = 1
                  <=> (diskLast.flag0 = 1 \/ (diskLast.called /\ diskLast.drv = RES_OK))
            /\ diskLast.flag0 = 1 => diskLast.stat = RES_OK
            /\ diskLast.stat = RES_OK => is_initialized[diskLast.pdrv] = 1)
    /\ [][\A p \in Drives : is_initialized[p] = 1 => is_initialized'[p] = 1]_vars

C24_Witness ==
    /\ diskLast.op = "initialize" /\ diskLast.flag0 = 1 /\ ~diskLast.called
    /\ diskLast.drv # RES_OK /\ diskLast.stat = RES_OK
    /\ is_initialized[diskLast.pdrv] = 1
    /\ drvInits[diskLast.pdrv] > 1

=============================================================================
